---------------------------- MODULE Spec2Model ----------------------------
(***************************************************************************)
(* Model of http_smuggle.py: test_header_parsing (request construction,   *)
(* the per-case probe loop with its try / except / finally, response      *)
(* header extraction) and analyze_results (summary and inconsistency      *)
(* rule).                                                                  *)
(*                                                                         *)
(* Text is modelled character by character: a Python str is a sequence of *)
(* one-character strings (a code point outside ASCII is written "U+XXXX"),*)
(* a bytes object is a sequence of one-character strings for ASCII bytes  *)
(* and "xHH" for bytes >= 0x80.  Times are integers, in hundredths of a   *)
(* second.                                                                 *)
(***************************************************************************)
EXTENDS Integers, Sequences, FiniteSets, TLC

VARIABLES
    host,        \* argument of test_header_parsing
    port,        \* argument of test_header_parsing
    test_cases,  \* the list built at lines 14-36
    pc,          \* position of the control flow ("main": main() has been entered)
    test,        \* index in test_cases of the loop variable `test` (0: loop not entered)
    sock,        \* socket object the local `sock` is bound to (0: unbound)
    sockets,     \* state of every socket object: "absent", "open", "connected", "closed"
    now,         \* time.time(), hundredths of a second
    start_time,  \* local start_time
    pending,     \* exception raised in the try body and not yet handled (<<>>: none)
    headers,     \* local dict headers (empty until a response has been parsed)
    results,     \* local list results
    out,         \* stdout: one element per print call
    raised,      \* exception that escaped test_header_parsing ("none" if none)
    trace        \* history of the operations performed on sockets, the clock, the analyzer

vars == <<host, port, test_cases, pc, test, sock, sockets, now, start_time, pending, headers,
          results, out, raised, trace>>

-----------------------------------------------------------------------------
(* Bounds of the model *)

\* greatest number of header lines in a response drawn by recv
MaxHeaderLines == 2

-----------------------------------------------------------------------------
(* Characters and string primitives of Python used by the program *)

CR == "\r"
LF == "\n"

UPPERCASE ==
    <<"A", "B", "C", "D", "E", "F", "G", "H", "I", "J", "K", "L", "M", "N", "O", "P",
      "Q", "R", "S", "T", "U", "V", "W", "X", "Y", "Z">>
LOWERCASE ==
    <<"a", "b", "c", "d", "e", "f", "g", "h", "i", "j", "k", "l", "m", "n", "o", "p",
      "q", "r", "s", "t", "u", "v", "w", "x", "y", "z">>

\* bytes >= 0x80 of the model's byte alphabet
HIGH_BYTES == {"xC3", "xA9", "xFF"}

\* str.lower() on one character
lower_char(c) ==
    IF \E i \in 1..26 : UPPERCASE[i] = c
    THEN LOWERCASE[CHOOSE i \in 1..26 : UPPERCASE[i] = c]
    ELSE c

\* str.lower()
lower(s) == [i \in 1..Len(s) |-> lower_char(s[i])]

\* str.find(sep) + 1: index of the first occurrence of sep in s, 0 if there is none
find(s, sep) ==
    LET hits == {i \in 1..(Len(s) - Len(sep) + 1) :
                    \A k \in 1..Len(sep) : s[i + k - 1] = sep[k]}
    IN  IF hits = {} THEN 0 ELSE CHOOSE i \in hits : \A j \in hits : i <= j

\* the operator `in` on two str
contains(s, sub) == find(s, sub) # 0

\* str.split(sep): cut at every occurrence of sep, left to right
RECURSIVE split(_, _)
split(s, sep) ==
    LET i == find(s, sep)
    IN  IF i = 0
        THEN <<s>>
        ELSE <<SubSeq(s, 1, i - 1)>> \o split(SubSeq(s, i + Len(sep), Len(s)), sep)

\* str.rsplit(sep, 1) on a string that contains sep: cut at the last occurrence only
split_once_last(s, sep) ==
    LET hits == {i \in 1..(Len(s) - Len(sep) + 1) :
                    \A k \in 1..Len(sep) : s[i + k - 1] = sep[k]}
        i    == CHOOSE h \in hits : \A j \in hits : h >= j
    IN  <<SubSeq(s, 1, i - 1), SubSeq(s, i + Len(sep), Len(s))>>

\* str.split(sep, 1) on a string that contains sep: cut at the first occurrence only
split_once(s, sep) ==
    LET i == find(s, sep)
    IN  <<SubSeq(s, 1, i - 1), SubSeq(s, i + Len(sep), Len(s))>>

\* the concatenation of the sequences ss[1], ..., ss[Len(ss)]
RECURSIVE concat_all(_)
concat_all(ss) ==
    IF Len(ss) = 0 THEN <<>>
    ELSE IF Len(ss) = 1 THEN ss[1]
    ELSE LET half == Len(ss) \div 2
         IN  concat_all(SubSeq(ss, 1, half)) \o concat_all(SubSeq(ss, half + 1, Len(ss)))

\* UTF-8 encoding of one character
encode_char(c) == IF c = "U+00E9" THEN <<"xC3", "xA9">> ELSE <<c>>

\* str.encode(): UTF-8
encode(s) == concat_all([i \in 1..Len(s) |-> encode_char(s[i])])

\* what decoding yields at position i of b: the character of an ASCII byte, the
\* character of a two-byte sequence that starts at i, nothing for a byte that starts no
\* valid sequence (dropped) or that continues the sequence started at i - 1
decode_at(b, i) ==
    IF b[i] \notin HIGH_BYTES THEN <<b[i]>>
    ELSE IF b[i] = "xC3" /\ i < Len(b) /\ b[i + 1] = "xA9" THEN <<"U+00E9">>
    ELSE <<>>

\* bytes.decode('utf-8', errors='ignore'): invalid bytes are dropped
decode(b) == concat_all([i \in 1..Len(b) |-> decode_at(b, i)])

DIGITS == <<"0", "1", "2", "3", "4", "5", "6", "7", "8", "9">>

\* decimal digits of a natural number
RECURSIVE digits(_)
digits(n) ==
    IF n < 10 THEN <<DIGITS[n + 1]>> ELSE digits(n \div 10) \o <<DIGITS[(n % 10) + 1]>>

\* format(x, ".2f") of a time x given in hundredths of a second
format_2f(h) ==
    LET a == IF h < 0 THEN -h ELSE h
    IN  (IF h < 0 THEN <<"-">> ELSE <<>>)
        \o digits(a \div 100) \o <<".">> \o <<DIGITS[((a % 100) \div 10) + 1]>>
        \o <<DIGITS[(a % 10) + 1]>>

-----------------------------------------------------------------------------
(* String literals of the program *)

NAME_BOTH ==
    <<"B", "o", "t", "h", " ", "H", "e", "a", "d", "e", "r", "s">>
NAME_TE ==
    <<"T", "E", " ", "O", "n", "l", "y">>
REQUEST_LINE ==
    <<"P", "O", "S", "T", " ", "/", " ", "H", "T", "T", "P", "/", "1", ".", "1", CR, LF>>
HOST_PREFIX ==
    <<"H", "o", "s", "t", ":", " ">>
CONTENT_LENGTH_LINE ==
    <<"C", "o", "n", "t", "e", "n", "t", "-", "L", "e", "n", "g", "t", "h", ":", " ",
      "5", CR, LF>>
TRANSFER_ENCODING_LINE ==
    <<"T", "r", "a", "n", "s", "f", "e", "r", "-", "E", "n", "c", "o", "d", "i", "n",
      "g", ":", " ", "c", "h", "u", "n", "k", "e", "d", CR, LF>>
CONNECTION_LINE ==
    <<"C", "o", "n", "n", "e", "c", "t", "i", "o", "n", ":", " ", "k", "e", "e", "p",
      "-", "a", "l", "i", "v", "e", CR, LF, CR, LF>>
BODY ==
    <<"0", CR, LF, CR, LF>>
CRLF == <<CR, LF>>
HEADER_SEP == <<":", " ">>
KEY_CONNECTION ==
    <<"c", "o", "n", "n", "e", "c", "t", "i", "o", "n">>
KEY_CONTENT_LENGTH ==
    <<"c", "o", "n", "t", "e", "n", "t", "-", "l", "e", "n", "g", "t", "h">>
NOT_SPECIFIED ==
    <<"N", "o", "t", " ", "s", "p", "e", "c", "i", "f", "i", "e", "d">>
STR_CLOSE ==
    <<"c", "l", "o", "s", "e">>
STR_KEEP_ALIVE ==
    <<"k", "e", "e", "p", "-", "a", "l", "i", "v", "e">>

-----------------------------------------------------------------------------
(* Request construction, lines 14-36 *)

\* the two requests with Content-Length placed after Transfer-Encoding
build_test_cases_misplaced(h) ==
    << [name    |-> NAME_BOTH,
        request |-> REQUEST_LINE \o HOST_PREFIX \o h \o CRLF \o TRANSFER_ENCODING_LINE
                    \o CONTENT_LENGTH_LINE \o CONNECTION_LINE \o BODY],
       [name    |-> NAME_TE,
        request |-> REQUEST_LINE \o HOST_PREFIX \o h \o CRLF
                    \o TRANSFER_ENCODING_LINE \o CONNECTION_LINE \o BODY] >>

build_test_cases(h) ==
    << [name    |-> NAME_BOTH,
        request |-> REQUEST_LINE \o HOST_PREFIX \o h \o CRLF \o CONTENT_LENGTH_LINE
                    \o TRANSFER_ENCODING_LINE \o CONNECTION_LINE \o BODY],
       [name    |-> NAME_TE,
        request |-> REQUEST_LINE \o HOST_PREFIX \o h \o CRLF
                    \o TRANSFER_ENCODING_LINE \o CONNECTION_LINE \o BODY] >>

-----------------------------------------------------------------------------
(* Response header extraction, lines 56-60.  The dict `headers` is a       *)
(* function from its keys to their values.                                 *)

\* headers.setdefault(key, value): an existing key keeps its value
dict_set_keep_first(d, key, value) ==
    [k \in (DOMAIN d) \cup {key} |-> IF k \in DOMAIN d THEN d[k] ELSE value]

\* headers[key] = value
dict_set(d, key, value) ==
    [k \in (DOMAIN d) \cup {key} |-> IF k = key THEN value ELSE d[k]]

\* headers.get(key, default)
dict_get(d, key, default) == IF key \in DOMAIN d THEN d[key] ELSE default

\* the loop of lines 57-60 over the lines from position i on, starting from dict d
RECURSIVE parse_lines(_, _, _)
parse_lines(lines, i, d) ==
    IF i > Len(lines) THEN d
    ELSE IF contains(lines[i], HEADER_SEP)
         THEN LET kv == split_once(lines[i], HEADER_SEP)
              IN  parse_lines(lines, i + 1, dict_set(d, lower(kv[1]), kv[2]))
         ELSE parse_lines(lines, i + 1, d)

\* lines 56-60: the dict `headers` of a decoded response
parse_headers(response) == parse_lines(split(response, CRLF), 1, << >>)

\* lines 62-67: the Observation appended to results
observation(name, response_time, parsed) ==
    [test_name      |-> name,
     response_time  |-> response_time,
     connection     |-> dict_get(parsed, KEY_CONNECTION, NOT_SPECIFIED),
     content_length |-> dict_get(parsed, KEY_CONTENT_LENGTH, NOT_SPECIFIED)]

-----------------------------------------------------------------------------
(* Messages printed by the program, and the text of the exceptions and     *)
(* the received data the environment can produce                           *)

ERR_TIMED_OUT ==
    <<"t", "i", "m", "e", "d", " ", "o", "u", "t">>
ERR_REFUSED ==
    <<"[", "E", "r", "r", "n", "o", " ", "1", "1", "1", "]", " ", "C", "o", "n", "n",
      "e", "c", "t", "i", "o", "n", " ", "r", "e", "f", "u", "s", "e", "d">>
ERR_RESET ==
    <<"[", "E", "r", "r", "n", "o", " ", "1", "0", "4", "]", " ", "C", "o", "n", "n",
      "e", "c", "t", "i", "o", "n", " ", "r", "e", "s", "e", "t", " ", "b", "y", " ",
      "p", "e", "e", "r">>
ERR_EMFILE ==
    <<"[", "E", "r", "r", "n", "o", " ", "2", "4", "]", " ", "T", "o", "o", " ", "m",
      "a", "n", "y", " ", "o", "p", "e", "n", " ", "f", "i", "l", "e", "s">>
STATUS_LINE ==
    <<"H", "T", "T", "P", "/", "1", ".", "1", " ", "2", "0", "0", " ", "O", "K">>
HEADER_LINE_1 ==
    <<"C", "o", "n", "n", "e", "c", "t", "i", "o", "n", ":", " ", "C", "l", "o", "s",
      "e">>
HEADER_LINE_2 ==
    <<"c", "o", "n", "n", "e", "c", "t", "i", "o", "n", ":", " ", "K", "E", "E", "P",
      "-", "A", "L", "I", "V", "E">>
HEADER_LINE_3 ==
    <<"C", "o", "n", "t", "e", "n", "t", "-", "L", "e", "n", "g", "t", "h", ":", " ",
      "1", "0">>
RESPONSE_KEEP_ALIVE ==
    <<"H", "T", "T", "P", "/", "1", ".", "1", " ", "2", "0", "0", " ", "O", "K", CR, LF,
      "C", "o", "n", "n", "e", "c", "t", "i", "o", "n", ":", " ", "k", "e", "e", "p",
      "-", "a", "l", "i", "v", "e", CR, LF, "C", "o", "n", "t", "e", "n", "t", "-", "L",
      "e", "n", "g", "t", "h", ":", " ", "0", CR, LF, CR, LF>>
RESPONSE_INVALID_BYTE ==
    <<"H", "T", "T", "P", "/", "1", ".", "1", " ", "2", "0", "0", " ", "O", "K", CR, LF,
      "C", "o", "n", "n", "e", "c", "t", "i", "o", "n", ":", " ", "c", "l", "o", "xFF",
      "s", "e", CR, LF, "X", "-", "N", "o", "t", "e", ":", " ", "a", ":", " ", "b", CR,
      LF, CR, LF>>
RESPONSE_MALFORMED ==
    <<"H", "T", "T", "P", "/", "1", ".", "1", " ", "4", "0", "0", " ", "B", "a", "d",
      " ", "R", "e", "q", "u", "e", "s", "t", CR, LF, "C", "o", "n", "n", "e", "c", "t",
      "i", "o", "n", ":", " ", "c", "l", "o", "s", "e", "d", CR, LF, "B", "a", "d", ":",
      "l", "i", "n", "e", CR, LF, CR, LF>>
RESPONSE_SENTINEL_TEXT ==
    <<"H", "T", "T", "P", "/", "1", ".", "1", " ", "2", "0", "0", " ", "O", "K", CR, LF,
      "C", "o", "n", "n", "e", "c", "t", "i", "o", "n", ":", " ", "N", "o", "t", " ",
      "s", "p", "e", "c", "i", "f", "i", "e", "d", CR, LF, CR, LF>>
MSG_TESTING ==
    <<"T", "e", "s", "t", "i", "n", "g", " ">>
MSG_FOR_HEADER_PARSING ==
    <<" ", "f", "o", "r", " ", "h", "e", "a", "d", "e", "r", " ", "p", "a", "r", "s",
      "i", "n", "g", " ", "b", "e", "h", "a", "v", "i", "o", "r", ".", ".", ".">>
MSG_ERROR_DURING ==
    <<"E", "r", "r", "o", "r", " ", "d", "u", "r", "i", "n", "g", " ">>
MSG_TEST ==
    <<LF, "T", "e", "s", "t", ":", " ">>
MSG_RESPONSE_TIME ==
    <<"R", "e", "s", "p", "o", "n", "s", "e", " ", "t", "i", "m", "e", ":", " ">>
MSG_CONNECTION_HEADER ==
    <<"C", "o", "n", "n", "e", "c", "t", "i", "o", "n", " ", "h", "e", "a", "d", "e",
      "r", ":", " ">>
MSG_CONTENT_LENGTH_HEADER ==
    <<"C", "o", "n", "t", "e", "n", "t", "-", "L", "e", "n", "g", "t", "h", " ", "h",
      "e", "a", "d", "e", "r", ":", " ">>
MSG_DETECTED ==
    <<LF, "[", "!", "]", " ", "P", "o", "t", "e", "n", "t", "i", "a", "l", " ", "h",
      "e", "a", "d", "e", "r", " ", "p", "a", "r", "s", "i", "n", "g", " ", "i", "n",
      "c", "o", "n", "s", "i", "s", "t", "e", "n", "c", "y", " ", "d", "e", "t", "e",
      "c", "t", "e", "d", ":">>
MSG_CLOSE_WITH_BOTH ==
    <<"-", " ", "S", "e", "r", "v", "e", "r", " ", "r", "e", "t", "u", "r", "n", "s",
      " ", "'", "C", "o", "n", "n", "e", "c", "t", "i", "o", "n", ":", " ", "c", "l",
      "o", "s", "e", "'", " ", "w", "i", "t", "h", " ", "b", "o", "t", "h", " ", "h",
      "e", "a", "d", "e", "r", "s">>
MSG_KEEP_ALIVE_WITH_TE ==
    <<"-", " ", "S", "e", "r", "v", "e", "r", " ", "r", "e", "t", "u", "r", "n", "s",
      " ", "'", "C", "o", "n", "n", "e", "c", "t", "i", "o", "n", ":", " ", "k", "e",
      "e", "p", "-", "a", "l", "i", "v", "e", "'", " ", "w", "i", "t", "h", " ", "T",
      "E", " ", "o", "n", "l", "y">>
MSG_TIMING_DIFFERS ==
    <<"-", " ", "R", "e", "s", "p", "o", "n", "s", "e", " ", "t", "i", "m", "i", "n",
      "g", " ", "d", "i", "f", "f", "e", "r", "s", " ", "b", "y", ":", " ">>

\* time.sleep(1), line 73, in hundredths of a second
SLEEP_TIME == 100

\* sock.settimeout(10), line 44, in hundredths of a second
SOCKET_TIMEOUT == 1000

\* port=80, line 8, and `parsed_url.port or 80`, line 106
DEFAULT_PORT == 80

-----------------------------------------------------------------------------
(* Inputs of a run *)

\* the host argument
Hosts == { <<"a">>, <<"b", ".", "c">>, <<"U+00E9">> }

\* the port argument: the default, or the port of the URL
Ports == {DEFAULT_PORT, 8080}

\* how the run is entered: through main(), line 111, or by a call of
\* test_header_parsing
Entries == {"main", "for"}

\* str(e) of the exception each blocking step can raise
SocketErrors  == {ERR_EMFILE}
ConnectErrors == {ERR_REFUSED, ERR_TIMED_OUT}
SendErrors    == {ERR_RESET, ERR_TIMED_OUT}
RecvErrors    == {ERR_RESET, ERR_TIMED_OUT}

\* time between the call of send and the return of recv, hundredths of a second
Elapsed == {20, 50}

\* time a blocking step takes to raise a timeout: the 10 s of settimeout, or a few
\* hundredths more
TimeoutElapsed == {SOCKET_TIMEOUT, SOCKET_TIMEOUT + 1, SOCKET_TIMEOUT + 6}

\* time a blocking step takes to raise err
failure_time(err) == IF err = ERR_TIMED_OUT THEN TimeoutElapsed ELSE {0}

HEADER_LINES == <<HEADER_LINE_1, HEADER_LINE_2, HEADER_LINE_3>>

\* the bytes of a response with the status line, header lines ls and an empty body
RECURSIVE wire_lines(_)
wire_lines(ls) ==
    IF ls = <<>> THEN <<>> ELSE HEADER_LINES[Head(ls)] \o CRLF \o wire_lines(Tail(ls))

wire(ls) == STATUS_LINE \o CRLF \o wire_lines(ls) \o CRLF

\* what sock.recv(4096) can return: nothing, a response with up to MaxHeaderLines
\* header lines, or one of four fixed responses
RecvData ==
    {<<>>, RESPONSE_KEEP_ALIVE, RESPONSE_INVALID_BYTE, RESPONSE_MALFORMED,
     RESPONSE_SENTINEL_TEXT}
    \cup {wire(ls) : ls \in UNION {[1..k -> 1..Len(HEADER_LINES)] : k \in 0..MaxHeaderLines}}

\* lines 52-60 on every response: the dict `headers` parsed from the decoded bytes
headers_of == [data \in RecvData |-> parse_headers(decode(data))]

-----------------------------------------------------------------------------
(* analyze_results, lines 77-97 *)

\* lines 82-85: the four lines printed for one Observation
summary(r) ==
    << MSG_TEST \o r.test_name,
       MSG_RESPONSE_TIME \o format_2f(r.response_time) \o <<"s">>,
       MSG_CONNECTION_HEADER \o r.connection,
       MSG_CONTENT_LENGTH_HEADER \o r.content_length >>

\* lines 81-85: the loop over results
RECURSIVE summaries(_)
summaries(rs) ==
    IF rs = <<>> THEN <<>> ELSE summary(Head(rs)) \o summaries(Tail(rs))

\* whether next(r for r in rs if r["test_name"] == name) finds an element
has_result(rs, name) == \E i \in 1..Len(rs) : rs[i].test_name = name

\* next(r for r in rs if r["test_name"] == name), when it finds one: the first
next_result(rs, name) ==
    rs[CHOOSE i \in 1..Len(rs) :
          /\ rs[i].test_name = name
          /\ \A j \in 1..(i - 1) : rs[j].test_name # name]

\* the rule with the two .lower() calls left out
inconsistent_case_sensitive(both_headers, te_only) ==
    /\ both_headers.connection = STR_CLOSE
    /\ te_only.connection = STR_KEEP_ALIVE

\* lines 91-92: the inconsistency rule
inconsistent(both_headers, te_only) ==
    /\ lower(both_headers.connection) = STR_CLOSE
    /\ lower(te_only.connection) = STR_KEEP_ALIVE

\* the difference as it is, with its sign
abs_signed(x) == x

abs(x) == IF x < 0 THEN -x ELSE x

\* a warning block that quotes the two values as received
finding_raw(both_headers, te_only) ==
    << MSG_DETECTED,
       SubSeq(MSG_CLOSE_WITH_BOTH, 1, 30) \o both_headers.connection
           \o SubSeq(MSG_CLOSE_WITH_BOTH, 36, Len(MSG_CLOSE_WITH_BOTH)),
       SubSeq(MSG_KEEP_ALIVE_WITH_TE, 1, 30) \o te_only.connection
           \o SubSeq(MSG_KEEP_ALIVE_WITH_TE, 41, Len(MSG_KEEP_ALIVE_WITH_TE)),
       MSG_TIMING_DIFFERS
           \o format_2f(abs(both_headers.response_time - te_only.response_time))
           \o <<"s">> >>

\* lines 93-97: the warning block
finding(both_headers, te_only) ==
    << MSG_DETECTED,
       MSG_CLOSE_WITH_BOTH,
       MSG_KEEP_ALIVE_WITH_TE,
       MSG_TIMING_DIFFERS
           \o format_2f(abs(both_headers.response_time - te_only.response_time))
           \o <<"s">> >>

\* analyze_results(rs): what it prints, and the exception it ends with ("none": it returns)
analyze_results(rs) ==
    IF ~has_result(rs, NAME_BOTH) \/ ~has_result(rs, NAME_TE)
    THEN [out |-> summaries(rs), exc |-> "StopIteration"]
    ELSE LET both_headers == next_result(rs, NAME_BOTH)
             te_only      == next_result(rs, NAME_TE)
         IN  [out |-> summaries(rs)
                      \o (IF inconsistent(both_headers, te_only)
                          THEN finding(both_headers, te_only) ELSE <<>>),
              exc |-> "none"]

-----------------------------------------------------------------------------
(* test_header_parsing, lines 8-75 *)

NO_ERROR == <<>>
NO_DATA == <<>>

\* one entry of the history
event(op, err, data) == [op |-> op, test |-> test, sock |-> sock, err |-> err, data |-> data]

SocketIds == 1..Len(test_cases)

\* the socket object a call of socket.socket() returns: one that does not exist yet
fresh_socket == CHOOSE s \in SocketIds :
                    /\ sockets[s] = "absent"
                    /\ \A t \in SocketIds : sockets[t] = "absent" => s <= t

Init ==
    /\ host \in Hosts
    /\ port \in Ports
    /\ test_cases = build_test_cases(host)
    /\ pc \in Entries
    /\ test = 0
    /\ sock = 0
    /\ sockets = [s \in 1..Len(test_cases) |-> "absent"]
    /\ now = 0
    /\ start_time = 0
    /\ pending = NO_ERROR
    /\ headers = << >>
    /\ results = <<>>
    /\ out = <<>>
    /\ raised = "none"
    /\ trace = <<>>

\* the exception err is raised in the try body at operation op
raise(op, err, data) ==
    /\ pending' = err
    /\ pc' = "except"
    /\ trace' = Append(trace, event(op, err, data))

\* lines 108-109: main() prints the target and calls test_header_parsing(host, port)
Main ==
    /\ pc = "main"
    /\ out' = Append(out, MSG_TESTING \o host \o <<":">> \o digits(port)
                              \o MSG_FOR_HEADER_PARSING)
    /\ pc' = "for"
    /\ UNCHANGED <<host, port, test_cases, headers, test, sock, sockets, now, start_time, pending,
                   results, raised, trace>>

\* line 40: the next test case, or the end of the loop
For ==
    /\ pc = "for"
    /\ IF test < Len(test_cases)
       THEN /\ test' = test + 1
            /\ pc' = "socket"
       ELSE /\ pc' = "analyze"
            /\ UNCHANGED test
    /\ UNCHANGED <<host, port, test_cases, headers, sock, sockets, now, start_time, pending, results,
                   out, raised, trace>>

\* lines 43-44: socket.socket(...) succeeds, sock is bound to the new socket
SocketOk ==
    /\ pc = "socket"
    /\ sock' = fresh_socket
    /\ sockets' = [sockets EXCEPT ![fresh_socket] = "open"]
    /\ trace' = Append(trace, [event("socket", NO_ERROR, NO_DATA) EXCEPT !.sock = fresh_socket])
    /\ pc' = "connect"
    /\ UNCHANGED <<host, port, test_cases, headers, test, now, start_time, pending, results, out, raised>>

\* line 43: socket.socket(...) raises, sock is not assigned
SocketFail ==
    /\ pc = "socket"
    /\ \E e \in SocketErrors : raise("socket", e, NO_DATA)
    /\ UNCHANGED <<host, port, test_cases, headers, test, sock, sockets, now, start_time, results, out,
                   raised>>

\* line 45: sock.connect((host, port)) succeeds
ConnectOk ==
    /\ pc = "connect"
    /\ sockets' = [sockets EXCEPT ![sock] = "connected"]
    /\ trace' = Append(trace, event("connect", NO_ERROR, NO_DATA))
    /\ pc' = "send"
    /\ UNCHANGED <<host, port, test_cases, headers, test, sock, now, start_time, pending, results, out,
                   raised>>

\* line 45: sock.connect((host, port)) raises
ConnectFail ==
    /\ pc = "connect"
    /\ \E e \in ConnectErrors :
          /\ \E d \in failure_time(e) : now' = now + d
          /\ raise("connect", e, NO_DATA)
    /\ UNCHANGED <<host, port, test_cases, headers, test, sock, sockets, start_time, results, out,
                   raised>>

\* lines 48-49: start_time is taken and the encoded request is sent
SendOk ==
    /\ pc = "send"
    /\ start_time' = now
    /\ trace' = Append(trace, event("send", NO_ERROR, encode(test_cases[test].request)))
    /\ pc' = "recv"
    /\ UNCHANGED <<host, port, test_cases, headers, test, sock, sockets, now, pending, results, out,
                   raised>>

\* lines 48-49: start_time is taken and sock.send raises
SendFail ==
    /\ pc = "send"
    /\ start_time' = now
    /\ \E e \in SendErrors :
          /\ \E d \in failure_time(e) : now' = now + d
          /\ raise("send", e, encode(test_cases[test].request))
    /\ UNCHANGED <<host, port, test_cases, headers, test, sock, sockets, results, out, raised>>

\* lines 52-67: recv returns data after d hundredths of a second; the response is
\* decoded, timed, parsed and the Observation appended
RecvOk ==
    /\ pc = "recv"
    /\ \E data \in RecvData :
          LET parsed == headers_of[data]
          IN  \E d \in Elapsed :
                 /\ now' = now + d
                 /\ headers' = parsed
                 /\ results' = Append(results,
                        observation(test_cases[test].name, now' - start_time, parsed))
                 /\ trace' = Append(trace, event("recv", NO_ERROR, data))
    /\ pc' = "finally"
    /\ UNCHANGED <<host, port, test_cases, test, sock, sockets, start_time, pending, out, raised>>

\* line 52: sock.recv raises
RecvFail ==
    /\ pc = "recv"
    /\ \E e \in RecvErrors :
          /\ \E d \in failure_time(e) : now' = now + d
          /\ raise("recv", e, NO_DATA)
    /\ UNCHANGED <<host, port, test_cases, headers, test, sock, sockets, start_time, results, out,
                   raised>>

\* a handler that prints the error and raises it again
Except_reraise ==
    /\ pc = "except"
    /\ out' = Append(out, MSG_ERROR_DURING \o test_cases[test].name \o HEADER_SEP \o pending)
    /\ raised' = "OSError"
    /\ pc' = "raised"
    /\ UNCHANGED <<host, port, test_cases, headers, test, sock, sockets, now, start_time, pending, results,
                   trace>>

\* a handler that also records the failed case, with the sentinel in both fields
Except_sentinel ==
    /\ pc = "except"
    /\ out' = Append(out, MSG_ERROR_DURING \o test_cases[test].name \o HEADER_SEP \o pending)
    /\ results' = Append(results, [test_name      |-> test_cases[test].name,
                                   response_time  |-> 0,
                                   connection     |-> NOT_SPECIFIED,
                                   content_length |-> NOT_SPECIFIED])
    /\ pending' = NO_ERROR
    /\ pc' = "finally"
    /\ UNCHANGED <<host, port, test_cases, headers, test, sock, sockets, now, start_time, raised, trace>>

\* lines 69-70: the handler prints the error and the exception is handled
Except ==
    /\ pc = "except"
    /\ out' = Append(out, MSG_ERROR_DURING \o test_cases[test].name \o HEADER_SEP \o pending)
    /\ pending' = NO_ERROR
    /\ pc' = "finally"
    /\ UNCHANGED <<host, port, test_cases, headers, test, sock, sockets, now, start_time, results, raised,
                   trace>>

\* a finally clause that closes the socket only after a failure
FinallyClose_leak ==
    /\ pc = "finally"
    /\ sock # 0
    /\ sockets' = IF trace[Len(trace)].err # NO_ERROR
                  THEN [sockets EXCEPT ![sock] = "closed"]
                  ELSE sockets
    /\ trace' = Append(trace, event("close", NO_ERROR, NO_DATA))
    /\ pc' = "sleep"
    /\ UNCHANGED <<host, port, test_cases, headers, test, sock, now, start_time, pending, results, out,
                   raised>>

\* line 72: sock.close() on the socket sock is bound to
FinallyClose ==
    /\ pc = "finally"
    /\ sock # 0
    /\ sockets' = [sockets EXCEPT ![sock] = "closed"]
    /\ trace' = Append(trace, event("close", NO_ERROR, NO_DATA))
    /\ pc' = "sleep"
    /\ UNCHANGED <<host, port, test_cases, headers, test, sock, now, start_time, pending, results, out,
                   raised>>

\* line 72: sock is unbound, evaluating it raises UnboundLocalError, which leaves the
\* finally clause, the loop and the function
FinallyUnbound ==
    /\ pc = "finally"
    /\ sock = 0
    /\ raised' = "UnboundLocalError"
    /\ pc' = "raised"
    /\ UNCHANGED <<host, port, test_cases, headers, test, sock, sockets, now, start_time, pending,
                   results, out, trace>>

\* line 73: time.sleep(1)
Sleep ==
    /\ pc = "sleep"
    /\ now' = now + SLEEP_TIME
    /\ trace' = Append(trace, event("sleep", NO_ERROR, NO_DATA))
    /\ pc' = "for"
    /\ UNCHANGED <<host, port, test_cases, headers, test, sock, sockets, start_time, pending, results,
                   out, raised>>

\* line 75: analyze_results(results) is called and returns
AnalyzeReturn ==
    /\ pc = "analyze"
    /\ LET analysis == analyze_results(results)
       IN  /\ analysis.exc = "none"
           /\ out' = out \o analysis.out
    /\ trace' = Append(trace, event("analyze", NO_ERROR, NO_DATA))
    /\ pc' = "done"
    /\ UNCHANGED <<host, port, test_cases, headers, test, sock, sockets, now, start_time, pending,
                   results, raised>>

\* line 75: analyze_results(results) is called and ends with an exception, which
\* leaves test_header_parsing
AnalyzeRaise ==
    /\ pc = "analyze"
    /\ LET analysis == analyze_results(results)
       IN  /\ analysis.exc # "none"
           /\ out' = out \o analysis.out
           /\ raised' = analysis.exc
    /\ trace' = Append(trace, event("analyze", NO_ERROR, NO_DATA))
    /\ pc' = "raised"
    /\ UNCHANGED <<host, port, test_cases, headers, test, sock, sockets, now, start_time, pending,
                   results>>

Next ==
    \/ Main
    \/ For
    \/ SocketOk
    \/ SocketFail
    \/ ConnectOk
    \/ ConnectFail
    \/ SendOk
    \/ SendFail
    \/ RecvOk
    \/ RecvFail
    \/ Except
    \/ FinallyClose
    \/ FinallyUnbound
    \/ Sleep
    \/ AnalyzeReturn
    \/ AnalyzeRaise

Spec == Init /\ [][Next]_vars

-----------------------------------------------------------------------------
(* Vocabulary of the properties *)

VALUE_MIXED_CLOSE ==
    <<"C", "l", "o", "s", "e">>
VALUE_UPPER_KEEP_ALIVE ==
    <<"K", "E", "E", "P", "-", "A", "L", "I", "V", "E">>
LINE_POST ==
    <<"P", "O", "S", "T", " ", "/", " ", "H", "T", "T", "P", "/", "1", ".", "1">>
LINE_CONTENT_LENGTH ==
    <<"C", "o", "n", "t", "e", "n", "t", "-", "L", "e", "n", "g", "t", "h", ":", " ",
      "5">>
LINE_TRANSFER_ENCODING ==
    <<"T", "r", "a", "n", "s", "f", "e", "r", "-", "E", "n", "c", "o", "d", "i", "n",
      "g", ":", " ", "c", "h", "u", "n", "k", "e", "d">>
LINE_CONNECTION ==
    <<"C", "o", "n", "n", "e", "c", "t", "i", "o", "n", ":", " ", "k", "e", "e", "p",
      "-", "a", "l", "i", "v", "e">>
LINE_CONNECTION_CLOSE ==
    <<"C", "o", "n", "n", "e", "c", "t", "i", "o", "n", ":", " ", "c", "l", "o", "s",
      "e">>

TestIds == 1..2

ProbeSteps == {"connect", "send", "recv"}

\* positions in the history of the operations op of test case t
events(op, t) == {i \in 1..Len(trace) : trace[i].op = op /\ trace[i].test = t}

\* operation op of test case t was attempted and raised
failed(t, op) == \E i \in events(op, t) : trace[i].err # NO_ERROR

\* operation op of test case t was attempted and returned
succeeded(t, op) == \E i \in events(op, t) : trace[i].err = NO_ERROR

\* test_header_parsing has ended, by returning or by an exception
terminated == pc \in {"done", "raised"}

\* analyze_results has been called
analysis_called == \E i \in 1..Len(trace) : trace[i].op = "analyze"

\* the try / except / finally of test case t is over
case_over(t) == test > t \/ (test = t /\ pc \in {"for", "analyze", "done", "raised"})

\* the warning block has been printed
finding_emitted == \E i \in 1..Len(out) : out[i] = MSG_DETECTED

\* the lines of the warning block, when it has been printed
finding_block ==
    SubSeq(out, CHOOSE i \in 1..Len(out) : out[i] = MSG_DETECTED, Len(out))

\* some line of the sequence ls contains the text s
some_line_contains(ls, s) == \E i \in 1..Len(ls) : contains(ls[i], s)

is_prefix(p, s) == Len(p) <= Len(s) /\ SubSeq(s, 1, Len(p)) = p

\* a and b are the same text up to the case of the letters A-Z
equal_ignoring_case(a, b) ==
    /\ Len(a) = Len(b)
    /\ \A i \in 1..Len(a) :
          \/ a[i] = b[i]
          \/ \E k \in 1..26 : {a[i], b[i]} = {UPPERCASE[k], LOWERCASE[k]}

open_sockets == {s \in DOMAIN sockets : sockets[s] \in {"open", "connected"}}

\* a response has just been received, parsed and recorded
just_parsed ==
    /\ pc = "finally"
    /\ Len(trace) > 0
    /\ trace[Len(trace)].op = "recv"
    /\ trace[Len(trace)].err = NO_ERROR

\* the text of that response
last_response == decode(trace[Len(trace)].data)

\* name, lowercased, and value of a line that contains ": "
header_name(line) == lower(SubSeq(line, 1, find(line, HEADER_SEP) - 1))
header_value(line) == SubSeq(line, find(line, HEADER_SEP) + Len(HEADER_SEP), Len(line))

\* the header lines of a text: name and value of every line that contains ": ", by
\* the position of the line
header_lines(text) ==
    LET lines == split(text, CRLF)
    IN  [i \in {j \in 1..Len(lines) : contains(lines[j], HEADER_SEP)} |->
            [name |-> header_name(lines[i]), value |-> header_value(lines[i])]]

\* the header lines of every response, and of the response just received
response_header_lines == [data \in RecvData |-> header_lines(decode(data))]
last_header_lines == response_header_lines[trace[Len(trace)].data]

\* positions of the header lines named key
lines_named(hl, key) == {i \in DOMAIN hl : hl[i].name = key}

\* value of the first / of the last header line named key, or the sentinel
first_value(hl, key) ==
    LET is == lines_named(hl, key)
    IN  IF is = {} THEN NOT_SPECIFIED ELSE hl[CHOOSE i \in is : \A j \in is : i <= j].value

last_value(hl, key) ==
    LET is == lines_named(hl, key)
    IN  IF is = {} THEN NOT_SPECIFIED ELSE hl[CHOOSE i \in is : \A j \in is : i >= j].value

\* two header lines are named key and the first and the last differ in value
duplicated(hl, key) == first_value(hl, key) # last_value(hl, key)

\* the test case an Observation belongs to
test_of(r) == CHOOSE t \in TestIds : test_cases[t].name = r.test_name

-----------------------------------------------------------------------------
(* C1.  When a probe failed and left no Observation, analyze_results      *)
(* prints the summaries of the Observations there are, emits no finding   *)
(* and returns normally: no exception leaves analyze_results or           *)
(* test_header_parsing.                                                    *)
C1_MissingObservationSkipped ==
    (analysis_called /\ Len(results) < 2)
        => /\ raised = "none"
           /\ pc = "done"
           /\ ~finding_emitted
           /\ Len(out) >= 4 * Len(results)
           /\ SubSeq(out, Len(out) - 4 * Len(results) + 1, Len(out)) = summaries(results)

-----------------------------------------------------------------------------
(* C2.  With both Observations present, the finding is emitted exactly    *)
(* when the connection value of "Both Headers" is "close" and that of     *)
(* "TE Only" is "keep-alive", both up to letter case; "Close" with        *)
(* "KEEP-ALIVE" fires, two "keep-alive" do not, the reverse pattern does  *)
(* not, the sentinel on either side does not.                              *)
C2_RuleIffCloseThenKeepAlive ==
    (analysis_called /\ Len(results) = 2)
        => LET both == results[1].connection
               te   == results[2].connection
           IN  /\ results[1].test_name = NAME_BOTH /\ results[2].test_name = NAME_TE
               /\ finding_emitted <=> (/\ equal_ignoring_case(both, STR_CLOSE)
                                       /\ equal_ignoring_case(te, STR_KEEP_ALIVE))
               /\ (both = VALUE_MIXED_CLOSE /\ te = VALUE_UPPER_KEEP_ALIVE) => finding_emitted
               /\ (both = STR_KEEP_ALIVE /\ te = STR_KEEP_ALIVE) => ~finding_emitted
               /\ (both = STR_KEEP_ALIVE /\ te = STR_CLOSE) => ~finding_emitted
               /\ (both = NOT_SPECIFIED \/ te = NOT_SPECIFIED) => ~finding_emitted

C2_Witness ==
    /\ pc = "done"
    /\ Len(results) = 2
    /\ results[1].connection = VALUE_MIXED_CLOSE
    /\ results[2].connection = VALUE_UPPER_KEEP_ALIVE
    /\ finding_emitted

-----------------------------------------------------------------------------
(* C3.  When connect, send or receive of a test case fails, exactly one   *)
(* error message is printed for that case, naming the case and the cause; *)
(* the run goes on: after a failure in "Both Headers" the "TE Only" case  *)
(* is probed, and analyze_results is called in every case: no exception   *)
(* other than that of analyze_results leaves the function, and a run that *)
(* has ended has called analyze_results.                                   *)
C3_FailureReportedRunContinues ==
    /\ \A t \in TestIds : \A op \in ProbeSteps :
          failed(t, op) =>
             /\ (test > t \/ pc # "except") =>
                   LET cause == trace[CHOOSE i \in events(op, t) : TRUE].err
                       named == {i \in 1..Len(out) :
                                   is_prefix(MSG_ERROR_DURING \o test_cases[t].name, out[i])}
                   IN  /\ Cardinality(named) = 1
                       /\ \A i \in named :
                             out[i] = MSG_ERROR_DURING \o test_cases[t].name
                                          \o <<":", " ">> \o cause
             /\ raised \in {"none", "StopIteration"}
             /\ terminated => analysis_called
             /\ (terminated /\ t = 1) => events("socket", 2) # {}

C3_Witness ==
    /\ terminated
    /\ failed(1, "send")
    /\ failed(2, "recv")
    /\ analysis_called
    /\ Cardinality({i \in 1..Len(out) : is_prefix(MSG_ERROR_DURING, out[i])}) = 2

-----------------------------------------------------------------------------
(* C4.  When analyze_results is called, results holds exactly one         *)
(* Observation for each test case whose connect, send and receive all     *)
(* succeeded and none for a case in which one of them failed: at most two *)
(* entries, of distinct names, in the order of the test cases.            *)
C4_OneObservationPerCompletedCase ==
    pc = "analyze" =>
        LET completed == {t \in TestIds : \A op \in ProbeSteps : succeeded(t, op)}
        IN  /\ Len(results) = Cardinality(completed)
            /\ Len(results) <= 2
            /\ \A t \in TestIds :
                  Cardinality({i \in 1..Len(results) :
                                  results[i].test_name = test_cases[t].name})
                      = IF t \in completed THEN 1 ELSE 0
            /\ \A i, j \in 1..Len(results) :
                  i < j => test_of(results[i]) < test_of(results[j])

C4_Witness ==
    /\ pc = "analyze"
    /\ failed(1, "send")
    /\ Len(results) = 1
    /\ results[1].test_name = NAME_TE

-----------------------------------------------------------------------------
(* C5.  The socket of a test case is closed on every exit path of the     *)
(* case, before the pause, before the next case creates its socket and    *)
(* before the analysis; at most one socket is open at any time and none   *)
(* when test_header_parsing ends.                                          *)
C5_ConnectionsClosed ==
    /\ Cardinality(open_sockets) <= 1
    /\ pc \in {"sleep", "for", "socket", "analyze", "done", "raised"} => open_sockets = {}
    /\ \A i \in 1..Len(trace) :
          (trace[i].op = "socket" /\ trace[i].err = NO_ERROR /\ case_over(trace[i].test))
              => sockets[trace[i].sock] = "closed"

C5_Witness ==
    /\ pc = "socket"
    /\ test = 2
    /\ failed(1, "recv")
    /\ sockets[1] = "closed"

-----------------------------------------------------------------------------
(* C6 as stated.  When several lines of a response have the same name     *)
(* after lowercasing, the Observation carries the value of the FIRST such *)
(* line, for connection and for content-length.  Stated of each           *)
(* Observation when it has just been appended to results.                  *)
C6_FirstOccurrenceWins ==
    just_parsed =>
        LET hl == last_header_lines
            r  == results[Len(results)]
        IN  /\ r.connection = first_value(hl, KEY_CONNECTION)
            /\ r.content_length = first_value(hl, KEY_CONTENT_LENGTH)

(* C6 as amended.  When several lines of a response have the same name    *)
(* after lowercasing, the Observation carries the value of the LAST such  *)
(* line, for connection and for content-length.  Stated of each           *)
(* Observation when it has just been appended to results.                  *)
C6_LastOccurrenceWins ==
    just_parsed =>
        LET hl == last_header_lines
            r  == results[Len(results)]
        IN  /\ r.test_name = test_cases[test].name
            /\ r.connection = last_value(hl, KEY_CONNECTION)
            /\ r.content_length = last_value(hl, KEY_CONTENT_LENGTH)

C6_Witness ==
    /\ just_parsed
    /\ test = 2
    /\ duplicated(last_header_lines, KEY_CONNECTION)
    /\ results[Len(results)].connection = VALUE_UPPER_KEEP_ALIVE
    /\ first_value(last_header_lines, KEY_CONNECTION) = VALUE_MIXED_CLOSE

-----------------------------------------------------------------------------
(* C7.  After every test case, whatever its outcome, exactly one pause of *)
(* one second takes place, after the close of the case's socket and       *)
(* before the next case creates its socket or the analysis starts.        *)
C7_OnePauseAfterEveryCase ==
    \A t \in TestIds :
        (events("socket", t) # {} /\ case_over(t)) =>
            /\ Cardinality(events("sleep", t)) = 1
            /\ \A i \in events("sleep", t) :
                  /\ \E j \in events("close", t) : j < i
                  /\ \A j \in 1..Len(trace) :
                        (trace[j].op = "analyze" \/ trace[j].test > t) => i < j

-----------------------------------------------------------------------------
(* C8.  In any run each of the two test cases is executed exactly once,   *)
(* "Both Headers" before "TE Only"; within a case connect, send and       *)
(* receive are attempted at most once each, in that order; the payload    *)
(* sent is the payload built for the case.                                 *)
C8_EachCaseOnceNoRetry ==
    terminated =>
        /\ \A t \in TestIds :
              /\ Cardinality(events("socket", t)) = 1
              /\ \A op \in ProbeSteps : Cardinality(events(op, t)) <= 1
              /\ \A i \in events("connect", t) : \E j \in events("socket", t) : j < i
              /\ \A i \in events("send", t) : \E j \in events("connect", t) : j < i
              /\ \A i \in events("recv", t) : \E j \in events("send", t) : j < i
              /\ \A i \in events("send", t) :
                    trace[i].data = encode(build_test_cases(host)[t].request)
        /\ \A i, j \in 1..Len(trace) :
              (trace[i].test = 1 /\ trace[j].test = 2) => i < j

-----------------------------------------------------------------------------
(* C9 as stated.  Whenever the rule fires, the warning contains both      *)
(* connection values as they were received, not case-normalised, and the  *)
(* difference of the response times.                                       *)
C9_WarningQuotesRawValues ==
    (finding_emitted /\ Len(results) = 2) =>
        /\ some_line_contains(finding_block, results[1].connection)
        /\ some_line_contains(finding_block, results[2].connection)
        /\ some_line_contains(finding_block,
               format_2f(abs(results[1].response_time - results[2].response_time)))

(* C9 as amended.  Whenever the rule fires, the warning is the heading,   *)
(* the two fixed lines quoting 'Connection: close' and 'Connection:       *)
(* keep-alive' in lower case whatever the case of the values received,    *)
(* and the difference of the response times with two decimals; the values *)
(* as received appear in the summaries printed before the warning.        *)
C9_WarningQuotesLowercaseValues ==
    (finding_emitted /\ Len(results) = 2) =>
        /\ Len(finding_block) = 4
        /\ contains(finding_block[2], <<"'">> \o LINE_CONNECTION_CLOSE \o <<"'">>)
        /\ LINE_CONNECTION_CLOSE = SubSeq(LINE_CONNECTION, 1, 12) \o lower(results[1].connection)
        /\ contains(finding_block[3], <<"'">> \o LINE_CONNECTION \o <<"'">>)
        /\ LINE_CONNECTION = SubSeq(LINE_CONNECTION, 1, 12) \o lower(results[2].connection)
        /\ finding_block[4] = MSG_TIMING_DIFFERS
               \o format_2f(abs(results[1].response_time - results[2].response_time))
               \o <<"s">>
        /\ \E i \in 1..(Len(out) - 4) :
               out[i] = MSG_CONNECTION_HEADER \o results[1].connection
        /\ \E i \in 1..(Len(out) - 4) :
               out[i] = MSG_CONNECTION_HEADER \o results[2].connection

C9_Witness ==
    /\ pc = "done"
    /\ finding_emitted
    /\ results[1].connection = VALUE_MIXED_CLOSE
    /\ results[2].connection # lower(results[2].connection)
    /\ results[1].response_time # results[2].response_time

-----------------------------------------------------------------------------
(* C10.  For a host without CR or LF the builder yields exactly two test  *)
(* cases, "Both Headers" then "TE Only"; the "TE Only" request is the     *)
(* request line, the Host line, Transfer-Encoding: chunked, Connection:   *)
(* keep-alive, a blank line and the body "0\r\n\r\n", and the "Both       *)
(* Headers" request is the same with the single line Content-Length: 5    *)
(* directly after the Host line; building again gives the same sequence.  *)
(* Stated of test_cases as built, before the loop, and as used, whenever  *)
(* a request is about to be sent.                                          *)
C10_RequestsDifferByContentLength ==
    ((~ \E i \in 1..Len(host) : host[i] \in {CR, LF}) /\ (test = 0 \/ pc = "send")) =>
        LET te_lines   == split(test_cases[2].request, CRLF)
            both_lines == split(test_cases[1].request, CRLF)
        IN  /\ Len(test_cases) = 2
            /\ test_cases[1].name = NAME_BOTH
            /\ test_cases[2].name = NAME_TE
            /\ te_lines = <<LINE_POST, HOST_PREFIX \o host, LINE_TRANSFER_ENCODING,
                            LINE_CONNECTION, <<>>, <<"0">>, <<>>, <<>>>>
            /\ both_lines = SubSeq(te_lines, 1, 2) \o <<LINE_CONTENT_LENGTH>>
                                \o SubSeq(te_lines, 3, Len(te_lines))
            /\ Len(test_cases[1].request)
                   = Len(test_cases[2].request) + Len(LINE_CONTENT_LENGTH) + 2
            /\ build_test_cases(host) = test_cases

C10_Witness ==
    /\ host = <<"b", ".", "c">>
    /\ pc = "send"
    /\ test = 2
    /\ Len(trace) >= 3
    /\ trace[3].op = "send"
    /\ trace[3].test = 1
    /\ contains(trace[3].data, CRLF \o LINE_CONTENT_LENGTH \o CRLF)

-----------------------------------------------------------------------------
(* Vocabulary of C11: right after lines 52-67 headers is the dict parsed   *)
(* from the response just received and the last element of results is the *)
(* Observation made from it                                                *)

\* the extraction itself: names and values of the lines with ": ", nothing else
extraction_by_lines ==
    LET hl == last_header_lines
    IN  /\ DOMAIN headers = {hl[i].name : i \in DOMAIN hl}
        /\ \A k \in DOMAIN headers :
              \E i \in DOMAIN hl : hl[i].name = k /\ headers[k] = hl[i].value
        /\ \A i \in DOMAIN hl :
              (\A j \in DOMAIN hl : hl[j].name = hl[i].name => j = i)
                  => headers[hl[i].name] = hl[i].value
        /\ (DOMAIN hl = {} \/ trace[Len(trace)].data = <<>>) => headers = << >>

(* C11 as stated.  Header extraction yields a mapping in which each line  *)
(* containing ": " contributes the lowercased text before its first ": "  *)
(* as name and the rest as value, lines without ": " contribute nothing,  *)
(* an empty or header-less response gives the empty mapping, and the      *)
(* connection and content-length fields of the Observation are            *)
(* "Not specified" exactly when the mapping has no such key.              *)
C11_SentinelExactlyWhenAbsent ==
    just_parsed =>
        LET r == results[Len(results)]
        IN  /\ extraction_by_lines
            /\ r.connection = NOT_SPECIFIED <=> KEY_CONNECTION \notin DOMAIN headers
            /\ r.content_length = NOT_SPECIFIED <=> KEY_CONTENT_LENGTH \notin DOMAIN headers

(* C11 as amended.  The same extraction; the connection and               *)
(* content-length fields of the Observation are "Not specified" whenever  *)
(* the mapping has no such key, and otherwise are the mapping's value for *)
(* the key, which is "Not specified" only when the response itself        *)
(* carries that text as the header's value.                                *)
C11_SentinelWhenAbsentElseValue ==
    just_parsed =>
        LET r == results[Len(results)]
        IN  /\ extraction_by_lines
            /\ KEY_CONNECTION \notin DOMAIN headers => r.connection = NOT_SPECIFIED
            /\ KEY_CONNECTION \in DOMAIN headers => r.connection = headers[KEY_CONNECTION]
            /\ KEY_CONTENT_LENGTH \notin DOMAIN headers => r.content_length = NOT_SPECIFIED
            /\ KEY_CONTENT_LENGTH \in DOMAIN headers
                   => r.content_length = headers[KEY_CONTENT_LENGTH]
            /\ (r.connection = NOT_SPECIFIED /\ KEY_CONNECTION \in DOMAIN headers)
                   => contains(last_response, HEADER_SEP \o NOT_SPECIFIED)

C11_Witness ==
    /\ just_parsed
    /\ KEY_CONNECTION \in DOMAIN headers
    /\ results[Len(results)].connection = NOT_SPECIFIED
    /\ results[Len(results)].content_length = NOT_SPECIFIED
    /\ KEY_CONTENT_LENGTH \notin DOMAIN headers

-----------------------------------------------------------------------------
(* C12.  When the finding is emitted, the time reported on its last line  *)
(* is the absolute difference of the two response times, with two         *)
(* decimals: not negative, and the same whichever case was the slower;    *)
(* 0.50 and 0.20 give 0.30, and so do 0.20 and 0.50.                       *)
C12_DeltaIsAbsoluteDifference ==
    (finding_emitted /\ Len(results) = 2) =>
        LET a        == results[1].response_time
            b        == results[2].response_time
            distance == IF a >= b THEN a - b ELSE b - a
            line     == out[Len(out)]
            reported == SubSeq(line, Len(MSG_TIMING_DIFFERS) + 1, Len(line))
        IN  /\ is_prefix(MSG_TIMING_DIFFERS, line)
            /\ reported = format_2f(distance) \o <<"s">>
            /\ \A i \in 1..Len(reported) : reported[i] # "-"
            /\ ({a, b} = {20, 50}) => reported = <<"0", ".", "3", "0", "s">>
            /\ (a = b) => reported = <<"0", ".", "0", "0", "s">>

C12_Witness ==
    /\ pc = "done"
    /\ finding_emitted
    /\ results[1].response_time = 20
    /\ results[2].response_time = 50
    /\ out[Len(out)] = MSG_TIMING_DIFFERS \o <<"0", ".", "3", "0", "s">>

-----------------------------------------------------------------------------
(* C13.  The cleanup that ends a test case never raises, whichever step   *)
(* of the case failed, a failed creation of the socket included; every    *)
(* close is applied to the socket created by the same case; no exception  *)
(* leaves the loop over the cases: the run reaches the analysis.          *)
C13_CleanupNeverRaises ==
    /\ raised # "UnboundLocalError"
    /\ \A i \in 1..Len(trace) :
          trace[i].op = "close" =>
              \E j \in 1..(i - 1) :
                  /\ trace[j].op = "socket"
                  /\ trace[j].err = NO_ERROR
                  /\ trace[j].test = trace[i].test
                  /\ trace[j].sock = trace[i].sock
    /\ pc = "raised" => analysis_called

-----------------------------------------------------------------------------
(* C14.  Every run of test_header_parsing terminates, whatever the        *)
(* outcomes of its steps: it takes a bounded number of steps (at most six *)
(* operations per case and the analysis), and when it has ended both      *)
(* cases have been run to their end and analyze_results has returned.     *)
C14_RunFinishesBothCasesAndReturns ==
    /\ Len(trace) <= 6 * Len(test_cases) + 1
    /\ terminated =>
          /\ pc = "done"
          /\ raised = "none"
          /\ \A t \in TestIds : events("socket", t) # {} /\ case_over(t)
          /\ analysis_called

=============================================================================
